---- MODULE Spec2Model ----
(***************************************************************************)
(* Model of consensus/src/lib.rs: the Solution proof buffer and its byte   *)
(* and lane views, the Algo tag, set_header_nonce, u256_to_vec and the     *)
(* completion pair returned by MineState::mine_block.                      *)
(*                                                                         *)
(* Machine integers wider than 31 bits are kept as sequences of 16-bit     *)
(* limbs, least significant limb first: a u32 is 2 limbs, a u64 and a      *)
(* usize are 4 limbs, a U256 is 4 u64 words (as in its [u64; 4] layout).   *)
(* Bytes are integers 0..255.                                              *)
(***************************************************************************)
EXTENDS Integers, Sequences, FiniteSets, TLC

\* ------------------------------------------------------------ constants
PROOF_SIZE == 42
CYCLE_LENGTH_U8 == PROOF_SIZE * 8

\* ------------------------------------------------------------ bounds
\* Longest chain of conversions a caller performs on one input.
MaxCalls == 3
\* Input lengths tried around the exact one: exact - d .. exact + d.
MaxLenDelta == 1
\* Longest header handed to set_header_nonce.
MaxHeaderLen == 6
\* Mining rounds started, channel capacities tried, sends and receives per round.
MaxRounds == 2
MaxCap == 2
MaxSends == 3
MaxRecvs == 2

\* ------------------------------------------------------------ integers
LimbBase == 2 ^ 16
U32Limbs == 32 \div 16
U64Limbs == 64 \div 16

\* A function over 1..n as the sequence of its values.
Tup(f) == f \o <<>>

Zero(w) == Tup([i \in 1..w |-> 0])

\* x as u8
LowByte(x) == x[1] % 256

\* x >> 8
Shr8(x) ==
    Tup([i \in 1..Len(x) |->
        (x[i] \div 256) + (IF i < Len(x) THEN (x[i + 1] % 256) * 256 ELSE 0)])

\* (x << 8) | b, the bits shifted out of the top are dropped
Shl8Or(x, b) ==
    Tup([i \in 1..Len(x) |->
        ((x[i] % 256) * 256) + (IF i = 1 THEN b ELSE x[i - 1] \div 256)])

\* n bytes of x, least significant first (to_le_bytes)
RECURSIVE to_le_bytes(_, _)
to_le_bytes(x, n) ==
    IF n = 0 THEN <<>> ELSE <<LowByte(x)>> \o to_le_bytes(Shr8(x), n - 1)

\* the w-limb integer whose little-endian bytes are b (from_le_bytes)
RECURSIVE from_le_bytes(_, _)
from_le_bytes(b, w) ==
    IF b = <<>> THEN Zero(w) ELSE Shl8Or(from_le_bytes(Tail(b), w), Head(b))

\* A small natural number as a w-limb integer.
RECURSIVE ToLimbs(_, _)
ToLimbs(n, w) ==
    IF w = 0 THEN <<>> ELSE <<n % LimbBase>> \o ToLimbs(n \div LimbBase, w - 1)

\* ------------------------------------------------------------ values
Panic == [t |-> "panic"]
NoValue == [t |-> "none"]
Ok(x) == [t |-> "ok", v |-> x]
VecU8(b) == [t |-> "vec_u8", v |-> b]
VecU64(l) == [t |-> "vec_u64", v |-> l]
ArrU64(l) == [t |-> "arr_u64", v |-> l]
Sol(b) == [t |-> "solution", v |-> b]

\* ------------------------------------------------------------ byteorder / slices
\* Variant: copies what fits instead of insisting on equal lengths.
copy_from_slice_nocheck(dst, src) ==
    Ok(Tup([k \in 1..Len(dst) |-> IF k <= Len(src) THEN src[k] ELSE dst[k]]))

\* Variant: stops one byte early.
copy_from_slice_short(dst, src) ==
    IF Len(dst) # Len(src) THEN Panic
    ELSE Ok(Tup([k \in 1..Len(dst) |-> IF k < Len(dst) THEN src[k] ELSE dst[k]]))

\* <[u8]>::copy_from_slice: the two lengths must agree.
copy_from_slice(dst, src) ==
    IF Len(dst) # Len(src) THEN Panic ELSE Ok(src)

\* Variant: writes the lanes that fit and leaves the rest of dst as it was.
write_u64_into_nocheck(src, dst) ==
    LET enc == Tup([i \in 1..Len(src) |-> to_le_bytes(src[i], 8)])
    IN  Ok(Tup([k \in 1..Len(dst) |->
            IF (k - 1) \div 8 < Len(src)
            THEN enc[((k - 1) \div 8) + 1][((k - 1) % 8) + 1]
            ELSE dst[k]]))

\* Variant: most significant byte first.
write_u64_into_be(src, dst) ==
    IF 8 * Len(src) # Len(dst) THEN Panic
    ELSE LET enc == Tup([i \in 1..Len(src) |-> to_le_bytes(src[i], 8)])
         IN  Ok(Tup([k \in 1..Len(dst) |-> enc[((k - 1) \div 8) + 1][8 - ((k - 1) % 8)]]))

\* LittleEndian::write_u64_into(src, dst): dst.len() must be 8 * src.len().
write_u64_into(src, dst) ==
    IF 8 * Len(src) # Len(dst) THEN Panic
    ELSE LET enc == Tup([i \in 1..Len(src) |-> to_le_bytes(src[i], 8)])
         IN  Ok(Tup([k \in 1..Len(dst) |-> enc[((k - 1) \div 8) + 1][((k - 1) % 8) + 1]]))

\* Variant: reads only the low four bytes of each lane.
read_u64_into_u32(src, dst) ==
    IF Len(src) # 8 * Len(dst) THEN Panic
    ELSE Ok(Tup([i \in 1..Len(dst) |->
            from_le_bytes(SubSeq(src, 8 * (i - 1) + 1, 8 * (i - 1) + 4), U64Limbs)]))

\* LittleEndian::read_u64_into(src, dst): src.len() must be 8 * dst.len().
read_u64_into(src, dst) ==
    IF Len(src) # 8 * Len(dst) THEN Panic
    ELSE Ok(Tup([i \in 1..Len(dst) |->
            from_le_bytes(SubSeq(src, 8 * (i - 1) + 1, 8 * i), U64Limbs)]))

\* ------------------------------------------------------------ Solution
ZeroBuffer == Tup([k \in 1..CYCLE_LENGTH_U8 |-> 0])
ZeroLanes == Tup([i \in 1..PROOF_SIZE |-> Zero(U64Limbs)])

\* impl Default for Solution
SolutionDefault == Sol(ZeroBuffer)

\* impl From<Vec<u8>> for Solution
SolutionFromVecU8(s) ==
    LET sol == copy_from_slice(ZeroBuffer, s)
    IN  IF sol.t = "panic" THEN Panic ELSE Sol(sol.v)

\* impl From<Vec<u64>> for Solution
SolutionFromVecU64(s) ==
    LET sol == write_u64_into(s, ZeroBuffer)
    IN  IF sol.t = "panic" THEN Panic ELSE Sol(sol.v)

\* impl From<[u64; PROOF_SIZE]> for Solution
SolutionFromArray(solution) ==
    LET sol == write_u64_into(solution, ZeroBuffer)
    IN  IF sol.t = "panic" THEN Panic ELSE Sol(sol.v)

\* impl Into<Vec<u8>> for Solution: self.0.to_vec()
SolutionIntoVecU8(buf) == VecU8(buf)

\* impl Into<[u64; PROOF_SIZE]> for Solution
SolutionIntoArray(buf) ==
    LET dst == read_u64_into(buf, ZeroLanes)
    IN  IF dst.t = "panic" THEN Panic ELSE ArrU64(dst.v)

\* impl Into<Vec<u64>> for Solution: the array view, then to_vec()
SolutionIntoVecU64(buf) ==
    LET sol == SolutionIntoArray(buf)
    IN  IF sol.t = "panic" THEN Panic ELSE VecU64(sol.v)

\* impl PartialEq for Solution: the two buffers compared as byte vectors
SolutionEq(a, b) == a = b

\* ------------------------------------------------------------ usize arithmetic
\* The borrow into limb i of a - b.
RECURSIVE Borrow(_, _, _)
Borrow(a, b, i) ==
    IF i = 1 THEN 0
    ELSE IF a[i - 1] - b[i - 1] - Borrow(a, b, i - 1) < 0 THEN 1 ELSE 0

\* a - b modulo 2^64
wrapping_sub(a, b) ==
    Tup([i \in 1..Len(a) |-> (a[i] - b[i] - Borrow(a, b, i) + LimbBase) % LimbBase])

\* a < b
Less(a, b) == Borrow(a, b, Len(a) + 1) = 1

\* a - b on usize: a panic when the build checks overflow, wrapping otherwise.
usize_sub(a, b, checks) ==
    IF Less(a, b) /\ checks THEN Panic ELSE Ok(wrapping_sub(a, b))

\* Vec::truncate(len): no effect when len is not below the current length.
truncate(vec, len) ==
    IF ~Less(len, ToLimbs(Len(vec), U64Limbs)) THEN vec
    ELSE SubSeq(vec, 1, len[1] + len[2] * LimbBase)

\* Variant: most significant byte first.
write_u32_be(vec, n) ==
    LET le == to_le_bytes(n, 4)
    IN  vec \o <<le[4], le[3], le[2], le[1]>>

\* WriteBytesExt::write_u32::<LittleEndian> on a Vec<u8>: appends 4 bytes.
write_u32_le(vec, n) == vec \o to_le_bytes(n, 4)

\* ------------------------------------------------------------ state
VARIABLES
    input,              \* the value the caller of the Solution conversions starts from
    calls,              \* the conversions performed so far: [op, arg, res]
    header,             \* set_header_nonce: the caller's header bytes
    nonce,              \* set_header_nonce: the nonce (u32)
    overflow_checks,    \* whether the build panics on integer overflow
    patched,            \* set_header_nonce: what the call returned
    algo_in,            \* the u32 handed to Algo::from
    algo,               \* the decoded Algo
    algo_out,           \* the Algo encoded again
    u,                  \* u256_to_vec: the U256
    t,                  \* u256_to_vec: the returned buffer
    round,              \* mining rounds started so far
    mine_header,        \* header of the current round
    cap,                \* capacity of the current round's channel
    queue,              \* values sent and not yet received
    sender_alive,       \* the sender half has not been dropped
    sent,               \* sends completed on the current round
    recvd               \* what the receiver half has observed on the current round

solVars == <<input, calls>>
nonceVars == <<header, nonce, overflow_checks, patched>>
algoVars == <<algo_in, algo, algo_out>>
u256Vars == <<u, t>>
mineVars == <<round, mine_header, cap, queue, sender_alive, sent, recvd>>
vars == <<solVars, nonceVars, algoVars, u256Vars, mineVars>>

\* ------------------------------------------------------------ inputs
FillLane(i) == <<i, 256 * i + 1, 32768 + 2 * i, 40960 + i>>
FillByte(k) == (7 * k + 3) % 256

U64Samples ==
    { <<0, 0, 0, 0>>, <<1, 0, 0, 0>>, <<255, 0, 0, 0>>, <<256, 0, 0, 0>>,
      <<0, 0, 1, 0>>, <<0, 0, 0, 32768>>, <<1800, 1286, 772, 258>>,
      <<65535, 65535, 65535, 65535>> }
ByteSamples == {0, 128, 255}
NonceSamples == { <<0, 0>>, <<1, 0>>, <<258, 772>>, <<0, 32768>>, <<65535, 65535>> }
HeaderBytes == {17, 238}
AlgoLimbs == {0, 1, 2, 7, 255, 256, 32768, 65535}

\* n lanes, lane k (if any) set to x
LanesWith(n, k, x) == Tup([i \in 1..n |-> IF i = k THEN x ELSE FillLane(i)])
BytesWith(n, k, x) == Tup([i \in 1..n |-> IF i = k THEN x ELSE FillByte(i)])

LaneLens == {0, 1} \cup ((PROOF_SIZE - MaxLenDelta)..(PROOF_SIZE + MaxLenDelta))
ByteLens == {0, 1} \cup ((CYCLE_LENGTH_U8 - MaxLenDelta)..(CYCLE_LENGTH_U8 + MaxLenDelta))

LaneInputs == UNION {{LanesWith(n, k, x) : k \in 0..n, x \in U64Samples} : n \in LaneLens}
ByteInputs == UNION {{BytesWith(n, k, x) : k \in 0..n, x \in ByteSamples} : n \in ByteLens}
HeaderInputs == UNION {{Tup(h) : h \in [1..n -> HeaderBytes]} : n \in 0..MaxHeaderLen}
MineHeaders == {h \in HeaderInputs : Len(h) = 4}
AlgoInputs == {<<lo, hi>> : lo \in AlgoLimbs, hi \in AlgoLimbs}
U256Inputs ==
    {<<a, b, c, d>> : a \in U64Samples, b \in U64Samples,
                      c \in {FillLane(3), <<65535, 65535, 65535, 65535>>},
                      d \in {<<0, 0, 0, 0>>, <<0, 0, 0, 32768>>}}

IdleSolution == input = NoValue /\ calls = <<>>
IdleNonce ==
    header = <<>> /\ nonce = Zero(U32Limbs) /\ overflow_checks = TRUE /\ patched = NoValue
IdleAlgo == algo_in = Zero(U32Limbs) /\ algo = NoValue /\ algo_out = NoValue
IdleU256 == u = Tup([i \in 1..4 |-> Zero(U64Limbs)]) /\ t = NoValue
IdleMine ==
    /\ round = 0 /\ mine_header = <<>> /\ cap = 0 /\ queue = <<>>
    /\ sender_alive = FALSE /\ sent = 0 /\ recvd = <<>>

\* ------------------------------------------------------------ Solution conversions
Cur == IF calls = <<>> THEN input ELSE calls[Len(calls)].res

Call(op, res) ==
    /\ Len(calls) < MaxCalls
    /\ calls' = Append(calls, [op |-> op, arg |-> Cur, res |-> res])
    /\ UNCHANGED <<input, nonceVars, algoVars, u256Vars, mineVars>>

InitSolution ==
    /\ calls = <<>>
    /\ input \in {NoValue}
            \cup {VecU64(l) : l \in LaneInputs}
            \cup {ArrU64(l) : l \in {m \in LaneInputs : Len(m) = PROOF_SIZE}}
            \cup {VecU8(b) : b \in ByteInputs}
    /\ IdleNonce /\ IdleAlgo /\ IdleU256 /\ IdleMine

Default ==
    /\ Cur.t = "none"
    /\ Call("default", SolutionDefault)

FromVecU8 ==
    /\ Cur.t = "vec_u8"
    /\ Call("from_vec_u8", SolutionFromVecU8(Cur.v))

FromVecU64 ==
    /\ Cur.t = "vec_u64"
    /\ Call("from_vec_u64", SolutionFromVecU64(Cur.v))

FromArray ==
    /\ Cur.t = "arr_u64"
    /\ Call("from_array", SolutionFromArray(Cur.v))

IntoVecU8 ==
    /\ Cur.t = "solution"
    /\ Call("into_vec_u8", SolutionIntoVecU8(Cur.v))

IntoVecU64 ==
    /\ Cur.t = "solution"
    /\ Call("into_vec_u64", SolutionIntoVecU64(Cur.v))

IntoArray ==
    /\ Cur.t = "solution"
    /\ Call("into_array", SolutionIntoArray(Cur.v))

NextSolution ==
    \/ Default
    \/ FromVecU8
    \/ FromVecU64
    \/ FromArray
    \/ IntoVecU8
    \/ IntoVecU64
    \/ IntoArray

SolutionSpec == InitSolution /\ [][NextSolution]_vars

\* ------------------------------------------------------------ set_header_nonce
set_header_nonce(hdr, n) ==
    LET len == ToLimbs(Len(hdr), U64Limbs)
        newlen == usize_sub(len, ToLimbs(4, U64Limbs), overflow_checks)
    IN  IF newlen.t = "panic" THEN Panic
        ELSE VecU8(write_u32_le(truncate(hdr, newlen.v), n))

InitNonce ==
    /\ header \in HeaderInputs
    /\ nonce \in NonceSamples
    /\ overflow_checks \in BOOLEAN
    /\ patched = NoValue
    /\ IdleSolution /\ IdleAlgo /\ IdleU256 /\ IdleMine

SetHeaderNonce ==
    /\ patched = NoValue
    /\ patched' = set_header_nonce(header, nonce)
    /\ UNCHANGED <<header, nonce, overflow_checks, solVars, algoVars, u256Vars, mineVars>>

NextNonce == SetHeaderNonce

NonceSpec == InitNonce /\ [][NextNonce]_vars

\* ------------------------------------------------------------ Algo
AlgoValue(a) == [t |-> "algo", v |-> a]
U32(x) == [t |-> "u32", v |-> x]

\* Variant: decides on the low 16 bits alone.
AlgoFromU32_low16(x) ==
    CASE x[1] = 0 -> AlgoValue("CUCKOO")
      [] x[1] = 1 -> AlgoValue("SCRYPT")
      [] OTHER -> AlgoValue("CUCKOO")

\* impl From<u32> for Algo
AlgoFromU32(x) ==
    CASE x = ToLimbs(0, U32Limbs) -> AlgoValue("CUCKOO")
      [] x = ToLimbs(1, U32Limbs) -> AlgoValue("SCRYPT")
      [] OTHER -> AlgoValue("CUCKOO")

\* impl Into<u32> for Algo
AlgoIntoU32(a) ==
    CASE a.v = "CUCKOO" -> U32(ToLimbs(0, U32Limbs))
      [] a.v = "SCRYPT" -> U32(ToLimbs(1, U32Limbs))

InitAlgo ==
    /\ algo_in \in AlgoInputs
    /\ algo = NoValue
    /\ algo_out = NoValue
    /\ IdleSolution /\ IdleNonce /\ IdleU256 /\ IdleMine

Decode ==
    /\ algo = NoValue
    /\ algo' = AlgoFromU32(algo_in)
    /\ UNCHANGED <<algo_in, algo_out, solVars, nonceVars, u256Vars, mineVars>>

Encode ==
    /\ algo # NoValue
    /\ algo_out = NoValue
    /\ algo_out' = AlgoIntoU32(algo)
    /\ UNCHANGED <<algo_in, algo, solVars, nonceVars, u256Vars, mineVars>>

NextAlgo ==
    \/ Decode
    \/ Encode

AlgoSpec == InitAlgo /\ [][NextAlgo]_vars

\* ------------------------------------------------------------ u256_to_vec
\* Variant: most significant byte first.
to_little_endian_be(x, bytes) ==
    Tup([k \in 1..Len(bytes) |->
        to_le_bytes(x[((Len(bytes) - k) \div 8) + 1], 8)[((Len(bytes) - k) % 8) + 1]])

\* U256::to_little_endian: word i of the value into bytes[8 * i ..], each
\* word with LittleEndian::write_u64.
to_little_endian(x, bytes) ==
    Tup([k \in 1..Len(bytes) |->
        IF (k - 1) \div 8 < Len(x)
        THEN to_le_bytes(x[((k - 1) \div 8) + 1], 8)[((k - 1) % 8) + 1]
        ELSE bytes[k]])

u256_to_vec(x) ==
    LET buf == Tup([k \in 1..32 |-> 0])
    IN  VecU8(to_little_endian(x, buf))

InitU256 ==
    /\ u \in U256Inputs
    /\ t = NoValue
    /\ IdleSolution /\ IdleNonce /\ IdleAlgo /\ IdleMine

U256ToVec ==
    /\ t = NoValue
    /\ t' = u256_to_vec(u)
    /\ UNCHANGED <<u, solVars, nonceVars, algoVars, mineVars>>

NextU256 == U256ToVec

U256Spec == InitU256 /\ [][NextU256]_vars

\* ------------------------------------------------------------ mine_block
\* impl Default for Proof
ProofDefault ==
    [solution |-> SolutionDefault.v, nonce |-> Zero(U32Limbs), algo |-> "CUCKOO",
     target |-> Tup([i \in 1..4 |-> <<65535, 65535, 65535, 65535>>])]

\* Option<Proof>
None == [t |-> "None"]
Some(p) == [t |-> "Some", v |-> p]
Messages == {None, Some(ProofDefault)}

InitMine ==
    /\ IdleMine
    /\ IdleSolution /\ IdleNonce /\ IdleAlgo /\ IdleU256

\* MineState::mine_block(header): a new round and its (Receiver, Sender) pair, the
\* two halves of one async_std::sync channel. The capacity is the implementor's
\* choice (at least 1), so every capacity up to MaxCap is tried.
mine_block(hdr) ==
    /\ round < MaxRounds
    /\ round' = round + 1
    /\ mine_header' = hdr
    /\ cap' \in 1..MaxCap
    /\ queue' = <<>>
    /\ sender_alive' = TRUE
    /\ sent' = 0
    /\ recvd' = <<>>
    /\ UNCHANGED <<solVars, nonceVars, algoVars, u256Vars>>

\* Sender::send(&self, msg): completes once the channel has room; the sender is
\* borrowed, not consumed.
Send(msg) ==
    /\ sender_alive
    /\ Len(queue) < cap
    /\ sent < MaxSends
    /\ queue' = Append(queue, msg)
    /\ sent' = sent + 1
    /\ UNCHANGED <<round, mine_header, cap, sender_alive, recvd>>
    /\ UNCHANGED <<solVars, nonceVars, algoVars, u256Vars>>

\* Receiver::recv(): the oldest value, or None once the channel is empty and
\* the sender is gone.
Recv ==
    /\ round > 0
    /\ Len(recvd) < MaxRecvs
    /\ \/ /\ queue # <<>>
          /\ recvd' = Append(recvd, Some(Head(queue)))
          /\ queue' = Tail(queue)
       \/ /\ queue = <<>>
          /\ ~sender_alive
          /\ recvd' = Append(recvd, None)
          /\ queue' = queue
    /\ UNCHANGED <<round, mine_header, cap, sender_alive, sent>>
    /\ UNCHANGED <<solVars, nonceVars, algoVars, u256Vars>>

\* The sender half goes out of scope.
DropSender ==
    /\ sender_alive
    /\ sender_alive' = FALSE
    /\ UNCHANGED <<round, mine_header, cap, queue, sent, recvd>>
    /\ UNCHANGED <<solVars, nonceVars, algoVars, u256Vars>>

NextMine ==
    \/ \E hdr \in MineHeaders : mine_block(hdr)
    \/ \E msg \in Messages : Send(msg)
    \/ Recv
    \/ DropSender

MineSpec == InitMine /\ [][NextMine]_vars

\* ------------------------------------------------------------ properties
\* Byte j (0-based) of the integer x: (x / 256^j) mod 256.
Digit256(x, j) == (x[(j \div 2) + 1] \div (IF j % 2 = 0 THEN 1 ELSE 256)) % 256

\* Byte i (0-based) of a U256 held as four u64 words.
DigitU256(x, i) == Digit256(x[(i \div 8) + 1], i % 8)

\* The positions i where call i is op1 and call i + 1 is op2.
Chained(op1, op2) ==
    {i \in 1..(Len(calls) - 1) : calls[i].op = op1 /\ calls[i + 1].op = op2}

\* The positions of the calls of op.
CallsOf(op) == {i \in 1..Len(calls) : calls[i].op = op}

AllOnes == <<65535, 65535, 65535, 65535>>

\* C1: Solution::from(v) for a vector v of exactly 42 u64 values, then
\* Into<Vec<u64>>, gives back a vector equal to v.
C1_RoundTripVecU64 ==
    \A i \in Chained("from_vec_u64", "into_vec_u64") :
        Len(calls[i].arg.v) = PROOF_SIZE =>
            /\ calls[i + 1].res.t = "vec_u64"
            /\ calls[i + 1].res.v = calls[i].arg.v

C1_Witness ==
    \E i \in Chained("from_vec_u64", "into_vec_u64") :
        /\ Len(calls[i].arg.v) = PROOF_SIZE
        /\ \E k \in 1..PROOF_SIZE : calls[i].arg.v[k] = AllOnes

\* C2: Solution::from(b) for a byte vector b of exactly 336 bytes, then
\* Into<Vec<u8>>, gives back a vector of 336 bytes equal to b.
C2_RoundTripVecU8 ==
    \A i \in Chained("from_vec_u8", "into_vec_u8") :
        Len(calls[i].arg.v) = CYCLE_LENGTH_U8 =>
            /\ calls[i + 1].res.t = "vec_u8"
            /\ Len(calls[i + 1].res.v) = 336
            /\ calls[i + 1].res.v = calls[i].arg.v

C2_Witness ==
    \E i \in Chained("from_vec_u8", "into_vec_u8") :
        /\ Len(calls[i].arg.v) = CYCLE_LENGTH_U8
        /\ calls[i].arg.v[CYCLE_LENGTH_U8] = 255

\* C5: Solution::from(bytes) with a length other than 336 panics and yields
\* no Solution.
C5_FromBytesWrongLengthPanics ==
    \A i \in CallsOf("from_vec_u8") :
        Len(calls[i].arg.v) # 336 => calls[i].res = Panic

C5_Witness ==
    \E i \in CallsOf("from_vec_u8") :
        /\ Len(calls[i].arg.v) = 335
        /\ calls[i].res = Panic

\* C8: the buffer of Solution::from(v), v of 42 lanes, holds at byte 8*i+j the
\* value (v[i] / 256^j) mod 256; and a Solution turned into its 42 lanes and
\* back with Solution::from is equal to the Solution it came from.
C8_LittleEndianLayout ==
    /\ \A c \in CallsOf("from_vec_u64") :
          Len(calls[c].arg.v) = PROOF_SIZE =>
              /\ calls[c].res.t = "solution"
              /\ \A i \in 0..(PROOF_SIZE - 1) : \A j \in 0..7 :
                    calls[c].res.v[8 * i + j + 1] = Digit256(calls[c].arg.v[i + 1], j)
    /\ \A c \in Chained("into_vec_u64", "from_vec_u64") \cup Chained("into_array", "from_array") :
          /\ calls[c + 1].res.t = "solution"
          /\ SolutionEq(calls[c + 1].res.v, calls[c].arg.v)

C8_Witness ==
    /\ Len(calls) = 3
    /\ calls[1].op = "from_vec_u8"
    /\ calls[1].arg.v[CYCLE_LENGTH_U8] = 255
    /\ calls[2].op = "into_vec_u64"
    /\ calls[3].op = "from_vec_u64"
    /\ calls[3].res.t = "solution"

\* C9: Solution::from(Vec<u64>) with other than 42 lanes panics, and every
\* Solution that any constructor produces holds exactly 336 bytes.
C9_NoPartialSolution ==
    /\ \A i \in CallsOf("from_vec_u64") :
          Len(calls[i].arg.v) # 42 => calls[i].res = Panic
    /\ \A i \in 1..Len(calls) :
          calls[i].res.t = "solution" => Len(calls[i].res.v) = 336

C9_Witness ==
    \E i \in CallsOf("from_vec_u64") :
        /\ Len(calls[i].arg.v) = 41
        /\ calls[i].res = Panic

\* C3: for a header of n >= 4 bytes, set_header_nonce returns n bytes: the
\* first n - 4 of the header, then the nonce least significant byte first;
\* the header handed in is left as it was.
C3_PatchesLastFourBytes ==
    [][(patched = NoValue /\ patched' # NoValue /\ Len(header) >= 4) =>
          /\ header' = header
          /\ patched'.t = "vec_u8"
          /\ Len(patched'.v) = Len(header)
          /\ \A k \in 1..(Len(header) - 4) : patched'.v[k] = header[k]
          /\ \A j \in 0..3 : patched'.v[Len(header) - 3 + j] = Digit256(nonce, j)]_vars

C3_Witness ==
    /\ patched.t = "vec_u8"
    /\ Len(header) >= 5
    /\ nonce = <<258, 772>>

\* C10: set_header_nonce on a header shorter than 4 bytes fails on len - 4
\* and returns no byte sequence.
C10_ShortHeaderFails ==
    (patched # NoValue /\ Len(header) < 4) => patched = Panic

\* C4: decoding an Algo from a u32 never fails: 0 is CUCKOO, 1 is SCRYPT,
\* anything else is CUCKOO; encoding gives 0 for CUCKOO and 1 for SCRYPT, so
\* decode-then-encode is 1 for input 1 and 0 for every other input.
C4_AlgoDecodeTotal ==
    /\ algo # NoValue =>
          /\ algo.t = "algo"
          /\ algo.v = (IF algo_in = <<1, 0>> THEN "SCRYPT" ELSE "CUCKOO")
    /\ algo_out # NoValue =>
          /\ algo_out.t = "u32"
          /\ algo_out.v = (IF algo.v = "SCRYPT" THEN <<1, 0>> ELSE <<0, 0>>)
          /\ algo_out.v = (IF algo_in = <<1, 0>> THEN <<1, 0>> ELSE <<0, 0>>)

C4_Witness ==
    /\ algo_in = <<7, 0>>
    /\ algo = AlgoValue("CUCKOO")
    /\ algo_out = U32(<<0, 0>>)

\* C7: u256_to_vec(u) is 32 bytes, byte i being (u / 256^i) mod 256.
C7_U256LittleEndian ==
    t # NoValue =>
        /\ t.t = "vec_u8"
        /\ Len(t.v) = 32
        /\ \A i \in 0..31 : t.v[i + 1] = DigitU256(u, i)

C7_Witness ==
    /\ t # NoValue
    /\ u[1] = <<1800, 1286, 772, 258>>
    /\ u[4] = <<0, 0, 0, 32768>>

\* C6: on one mining round at most one send on the returned sender half
\* ever succeeds.
C6_AtMostOneSend == sent <= 1

====
